---- MODULE Spec2Model ----
(***************************************************************************)
(* Model of the form pages of the react-19-demo site.  The core is the     *)
(* rule-based field validator, validate(data, schema), with                *)
(* registrationSchema and the form component that calls it                 *)
(* (src/pages/forms/VanillaValidation.tsx); the Yup form, the Zod form and *)
(* the event log of EventsDemo are modelled by their handlers.             *)
(*                                                                         *)
(* JavaScript strings are sequences of one-character strings, so that      *)
(* length, trim and the regular expressions are computed character by      *)
(* character.  The error messages of the source are Russian; the module    *)
(* language is ASCII only, so each message is written in Latin             *)
(* transliteration next to the source line that holds the original.        *)
(***************************************************************************)
EXTENDS Integers, Sequences, FiniteSets, TLC

VARIABLES
    data,       \* the values record handed to validate (field -> string)
    schema,     \* the schema handed to validate (entries in key order)
    outcome,    \* "idle" | "returned" | "thrown": how the last call ended
    result,     \* what the caller received: {} (nothing) or {the Error Report}
    calls,      \* the predicate invocations of the last call, <<field, index>>
    nCalls,     \* how many calls of validate(data, schema) have been made
    first,      \* what the first call of validate(data, schema) returned
    last,       \* the errors object of the most recent validate call, any caller
    between,    \* whether another caller's validate ran after the first call
    \* the component VanillaValidation
    formData,       \* useState: field -> the text of its input
    errors,         \* useState: field -> {} (undefined) or {message}
    touched,        \* useState: the set of touched fields
    submitStatus,   \* useState: "idle" | "success"
    lastEvent,      \* the handler that ran last: "none" | "change" | "blur" | "submit" | "reset"
    seen,           \* the fields blurred or submitted since the form was last empty
    \* the component YupValidation
    yupDom,             \* what each rendered input holds
    yupValues,          \* the field values React Hook Form holds
    yupErrors,          \* formState.errors: field -> message
    yupSubmitted,       \* formState.isSubmitted
    yupSubmitting,      \* formState.isSubmitting
    yupSubmitResult,    \* useState: {} (null) or {the data onSubmit received}
    yupLastPress,       \* the last press of submit, with the inputs as they
                        \* are now: "none" | "rejected" | "accepted"
    \* the component ZodValidation
    zodSkills,          \* the form value skills: the text of its input
    zodRest,            \* whether the other nine form values pass profileSchema
    zodErrors,          \* formState.errors: the parts of the form with an error
    zodSubmitted,       \* formState.isSubmitted
    zodPending,         \* {} or {the data of the onSubmit call that is waiting}
    zodSubmitResult,    \* useState: {} (null) or {the data shown}
    zodConsole,         \* {} or {what console.log received last}
    \* the component EventsDemo
    eventLog,           \* useState: the log entries, oldest first
    idRef,              \* useRef: the id of the entry added last
    \* the chat of the component UseOptimisticDemo
    chatMessages,       \* useState: the messages the server confirmed
    chatError,          \* useState: {} (null) or {the error text}
    chatPending,        \* the texts of the sendMessage calls in flight, oldest first
    chatOptimistic,     \* the texts added by addOptimisticMessage and not yet dropped
    chatSent,           \* how many messages went to the server
    chatEvent,          \* the step that ran last: "none" | "skipped" | "sent" | "confirmed" | "rejected"
    chatText,           \* the text of the form when it was submitted last
    \* the team form of the component ReactHookFormDemo
    teamNameFilled,     \* whether the teamName input holds a passing text
    teamMembers,        \* the field array members: per member, whether its inputs pass
    teamPending,        \* {} or {the data of the onSubmit call that is waiting}
    teamSubmitResult,   \* useState: {} (null) or {the data shown}
    teamEvent,          \* the step that ran last
    \* the feedback form of the component UseActionStateDemo
    feedbackState,      \* useActionState: the state the action returned last
    feedbackPending,    \* {} or {the fields of the submitFeedback call that is waiting}
    feedbackInput,      \* {} or {the fields submitted last}
    feedbackDelayed     \* whether the call for feedbackInput reached the server delay

validatorVars == <<data, schema, outcome, result, calls, nCalls, first, last, between>>

formVars == <<formData, errors, touched, submitStatus, lastEvent, seen>>

yupVars == <<yupDom, yupValues, yupErrors, yupSubmitted, yupSubmitting,
             yupSubmitResult, yupLastPress>>

zodVars == <<zodSkills, zodRest, zodErrors, zodSubmitted, zodPending,
             zodSubmitResult, zodConsole>>

logVars == <<eventLog, idRef>>

chatVars == <<chatMessages, chatError, chatPending, chatOptimistic, chatSent,
              chatEvent, chatText>>

teamVars == <<teamNameFilled, teamMembers, teamPending, teamSubmitResult, teamEvent>>

feedbackVars == <<feedbackState, feedbackPending, feedbackInput, feedbackDelayed>>

vars == <<validatorVars, formVars, yupVars, zodVars, logVars, chatVars, teamVars,
          feedbackVars>>

\* what the steps of one component leave alone
exceptValidator == <<formVars, yupVars, zodVars, logVars, chatVars, teamVars, feedbackVars>>
exceptForm == <<validatorVars, yupVars, zodVars, logVars, chatVars, teamVars, feedbackVars>>
exceptYup == <<validatorVars, formVars, zodVars, logVars, chatVars, teamVars, feedbackVars>>
exceptZod == <<validatorVars, formVars, yupVars, logVars, chatVars, teamVars, feedbackVars>>
exceptLog == <<validatorVars, formVars, yupVars, zodVars, chatVars, teamVars, feedbackVars>>
exceptChat == <<validatorVars, formVars, yupVars, zodVars, logVars, teamVars, feedbackVars>>
exceptTeam == <<validatorVars, formVars, yupVars, zodVars, logVars, chatVars, feedbackVars>>
exceptFeedback == <<validatorVars, formVars, yupVars, zodVars, logVars, chatVars, teamVars>>

----------------------------------------------------------------------------
(* Bounds of the model. *)

\* Longest rule list of a generated schema field.
MaxRules == 2

\* How many times validate(data, schema) is called in one behaviour.
MaxCalls == 2

\* Longest text typed into the skills input of the Zod form.
MaxSkillsLen == 2

\* How many events EventsDemo logs in one behaviour.
MaxEvents == 53

\* How many chat messages are sent to the server in one behaviour.
MaxSends == 3

----------------------------------------------------------------------------
(* JavaScript values. *)

\* The value `undefined`: what data[field] yields for a missing key.  It is a
\* one-element sequence whose element is no single character, so it differs
\* from every string.
Undefined == <<"undefined">>

\* String(undefined), which RegExp.prototype.test applies to its argument.
UndefinedText == <<"u", "n", "d", "e", "f", "i", "n", "e", "d">>

ToText(v) == IF v = Undefined THEN UndefinedText ELSE v

LowerChars == {"a", "b", "c", "d", "e", "f", "g", "h", "i", "j", "k", "l", "m",
               "n", "o", "p", "q", "r", "s", "t", "u", "v", "w", "x", "y", "z"}

UpperChars == {"A", "B", "C", "D", "E", "F", "G", "H", "I", "J", "K", "L", "M",
               "N", "O", "P", "Q", "R", "S", "T", "U", "V", "W", "X", "Y", "Z"}

DigitChars == {"0", "1", "2", "3", "4", "5", "6", "7", "8", "9"}

\* \s of the regular expressions and the characters trim() removes; of the
\* white space of JavaScript the inputs of the model use the blank only.
SpaceChars == {" "}

DigitValue(c) ==
    CASE c = "0" -> 0 [] c = "1" -> 1 [] c = "2" -> 2 [] c = "3" -> 3
      [] c = "4" -> 4 [] c = "5" -> 5 [] c = "6" -> 6 [] c = "7" -> 7
      [] c = "8" -> 8 [] c = "9" -> 9

RECURSIVE TrimStart(_)
TrimStart(s) ==
    IF s /= <<>> /\ Head(s) \in SpaceChars THEN TrimStart(Tail(s)) ELSE s

RECURSIVE TrimEnd(_)
TrimEnd(s) ==
    IF s /= <<>> /\ s[Len(s)] \in SpaceChars
    THEN TrimEnd(SubSeq(s, 1, Len(s) - 1))
    ELSE s

\* String.prototype.trim
Trim(s) == TrimEnd(TrimStart(s))

\* s.startsWith(p)
StartsWith(s, p) == Len(s) >= Len(p) /\ SubSeq(s, 1, Len(p)) = p

\* /[a-z]/.test(v), /[A-Z]/.test(v), /\d/.test(v)
HasLower(v) == \E i \in 1..Len(ToText(v)) : ToText(v)[i] \in LowerChars
HasUpper(v) == \E i \in 1..Len(ToText(v)) : ToText(v)[i] \in UpperChars
HasDigit(v) == \E i \in 1..Len(ToText(v)) : ToText(v)[i] \in DigitChars

\* [^\s@]+ over s[lo..hi]
PlainRun(s, lo, hi) ==
    /\ lo <= hi
    /\ \A k \in lo..hi : s[k] \notin SpaceChars /\ s[k] /= "@"

\* /^[^\s@]+@[^\s@]+\.[^\s@]+$/.test(v)
EmailPattern(v) ==
    LET s == ToText(v)
    IN  \E i \in 1..Len(s) : \E j \in 1..Len(s) :
            /\ i < j
            /\ s[i] = "@"
            /\ s[j] = "."
            /\ PlainRun(s, 1, i - 1)
            /\ PlainRun(s, i + 1, j - 1)
            /\ PlainRun(s, j + 1, Len(s))

HttpPrefix == <<"h", "t", "t", "p", ":", "/", "/">>
HttpsPrefix == <<"h", "t", "t", "p", "s", ":", "/", "/">>

\* .+\..+ over the rest of s from position lo: a dot with at least one
\* character before it and one after it (the inputs hold no line terminator)
DottedRest(s, lo) == \E j \in (lo + 1)..(Len(s) - 1) : s[j] = "."

\* /^https?:\/\/.+\..+/.test(v)
UrlPattern(v) ==
    LET s == ToText(v)
    IN  \/ StartsWith(s, HttpPrefix) /\ DottedRest(s, Len(HttpPrefix) + 1)
        \/ StartsWith(s, HttpsPrefix) /\ DottedRest(s, Len(HttpsPrefix) + 1)

RECURSIVE DigitsValue(_, _)
DigitsValue(s, acc) ==
    IF s = <<>> THEN acc ELSE DigitsValue(Tail(s), 10 * acc + DigitValue(Head(s)))

AllDigits(s) == s /= <<>> /\ \A i \in 1..Len(s) : s[i] \in DigitChars

\* Number(v) for undefined and for the strings made of blanks, digits, a
\* leading sign and characters that make the string no numeric literal: the
\* trimmed text "" is 0, a signed run of digits is its value, anything else
\* is NaN.  (Inputs with a decimal point, an exponent, a radix prefix or
\* "Infinity" are outside the strings the model draws.)
ToNumber(v) ==
    LET t == IF v = Undefined THEN v ELSE Trim(v)
    IN  IF v = Undefined THEN [nan |-> TRUE, n |-> 0]
        ELSE IF t = <<>> THEN [nan |-> FALSE, n |-> 0]
        ELSE IF AllDigits(t) THEN [nan |-> FALSE, n |-> DigitsValue(t, 0)]
        ELSE IF Head(t) = "+" /\ AllDigits(Tail(t))
             THEN [nan |-> FALSE, n |-> DigitsValue(Tail(t), 0)]
        ELSE IF Head(t) = "-" /\ AllDigits(Tail(t))
             THEN [nan |-> FALSE, n |-> 0 - DigitsValue(Tail(t), 0)]
        ELSE [nan |-> TRUE, n |-> 0]

----------------------------------------------------------------------------
(* Records of field values. *)

\* data[field]: undefined when the record has no such key
Get(d, f) == IF f \in DOMAIN d THEN d[f] ELSE Undefined

\* the object {} : a mapping with no key
EmptyObject == [k \in {} |-> <<>>]

\* { ...obj, [key]: value }
Put(obj, key, value) ==
    [k \in DOMAIN obj \cup {key} |-> IF k = key THEN value ELSE obj[k]]

----------------------------------------------------------------------------
(* The rule predicates of registrationSchema.  A predicate that reads      *)
(* v.length or calls v.trim() throws a TypeError when v is undefined; a    *)
(* regular expression tests String(v); a comparison or Number(v) accepts   *)
(* undefined.                                                              *)

\* the checks that dereference the value: v.trim() (107-109), v.length
\* (113, 118, 119, 127, 132)
Dereferencing ==
    {"name.filled", "name.min", "name.max", "email.filled", "password.filled",
     "password.min", "confirmPassword.filled", "age.filled"}

\* rule.check(v, all) throws
CheckThrows(id, v, all) == id \in Dereferencing /\ v = Undefined

\* the check functions of lines 107-140, one operator each
nameFilled(v) == Len(Trim(v)) > 0
nameMin(v) == Len(Trim(v)) >= 2
nameMax(v) == Len(Trim(v)) <= 50
emailFilled(v) == Len(v) > 0
emailFormat(v) == EmailPattern(v)
passwordFilled(v) == Len(v) > 0
passwordMin(v) == Len(v) >= 8
passwordLower(v) == HasLower(v)
passwordUpper(v) == HasUpper(v)
passwordDigit(v) == HasDigit(v)
confirmFilled(v) == Len(v) > 0
confirmSame_self(v, all) == v = Get(all, "confirmPassword") \* Faulty variant: wrong key
confirmSame(v, all) == v = Get(all, "password")
ageFilled(v) == Len(v) > 0
ageNumeric(v) == ~ToNumber(v).nan
\* Faulty variant: the lower limit is exclusive
ageMin_exclusive(v) == ~ToNumber(v).nan /\ ToNumber(v).n > 18
ageMin(v) == ~ToNumber(v).nan /\ ToNumber(v).n >= 18
ageMax(v) == ~ToNumber(v).nan /\ ToNumber(v).n <= 120
\* Faulty variant: the empty value is not let through
websiteUrl_required(v) == UrlPattern(v)
websiteUrl(v) == v = Undefined \/ v = <<>> \/ UrlPattern(v)

\* rule.check(v, all) is true
CheckHolds(id, v, all) ==
    CASE id = "name.filled"            -> nameFilled(v)
      [] id = "name.min"               -> nameMin(v)
      [] id = "name.max"               -> nameMax(v)
      [] id = "email.filled"           -> emailFilled(v)
      [] id = "email.format"           -> emailFormat(v)
      [] id = "password.filled"        -> passwordFilled(v)
      [] id = "password.min"           -> passwordMin(v)
      [] id = "password.lower"         -> passwordLower(v)
      [] id = "password.upper"         -> passwordUpper(v)
      [] id = "password.digit"         -> passwordDigit(v)
      [] id = "confirmPassword.filled" -> confirmFilled(v)
      [] id = "confirmPassword.same"   -> confirmSame(v, all)
      [] id = "age.filled"             -> ageFilled(v)
      [] id = "age.numeric"            -> ageNumeric(v)
      [] id = "age.min"                -> ageMin(v)
      [] id = "age.max"                -> ageMax(v)
      [] id = "website.url"            -> websiteUrl(v)

\* the outcome of one invocation rule.check(v, all)
InvokeCheck(id, v, all) ==
    IF CheckThrows(id, v, all) THEN "throw"
    ELSE IF CheckHolds(id, v, all) THEN "true"
    ELSE "false"

Rule(id, msg) == [check |-> id, message |-> msg]

\* the rule list of each field of registrationSchema, in source order
FieldRules(f) ==
    CASE f = "name" ->
            << Rule("name.filled", "Imya obyazatelno"),
               Rule("name.min", "Minimum 2 simvola"),
               Rule("name.max", "Maksimum 50 simvolov") >>
      [] f = "email" ->
            << Rule("email.filled", "Email obyazatelen"),
               Rule("email.format", "Nekorrektnyi format email") >>
      [] f = "password" ->
            << Rule("password.filled", "Parol obyazatelen"),
               Rule("password.min", "Minimum 8 simvolov"),
               Rule("password.lower", "Nuzhna khotya by odna strochnaya bukva"),
               Rule("password.upper", "Nuzhna khotya by odna zaglavnaya bukva"),
               Rule("password.digit", "Nuzhna khotya by odna tsifra") >>
      [] f = "confirmPassword" ->
            << Rule("confirmPassword.filled", "Podtverdite parol"),
               Rule("confirmPassword.same", "Paroli ne sovpadayut") >>
      [] f = "age" ->
            << Rule("age.filled", "Vozrast obyazatelen"),
               Rule("age.numeric", "Vvedite chislo"),
               Rule("age.min", "Minimum 18 let"),
               Rule("age.max", "Proverte vozrast") >>
      [] f = "website" ->
            << Rule("website.url", "URL dolzhen nachinatsya s http:// ili https://") >>

\* One key of a schema object: the field, and its rule list.  A key whose
\* value is undefined (the type makes every rule list optional) has
\* defined = FALSE.
Entry(f, rules) == [field |-> f, rules |-> rules, defined |-> TRUE]
NoRulesEntry(f) == [field |-> f, rules |-> <<>>, defined |-> FALSE]

\* the keys of RegistrationData, in declaration order
Fields == <<"name", "email", "password", "confirmPassword", "age", "website">>

\* A schema is the sequence of its keys' entries in for-in order (insertion
\* order, the keys being no array indices).
registrationSchema == [k \in 1..Len(Fields) |-> Entry(Fields[k], FieldRules(Fields[k]))]

----------------------------------------------------------------------------
(* validate(data, schema).  The run threads one record through the loops:  *)
(* the two arguments (objects the function could write to), the local      *)
(* errors object, the log of predicate invocations and whether a predicate *)
(* has thrown.                                                             *)

\* Faulty variant: the errors object is shared by all calls instead of allocated
NewErrors_shared == last

\* const errors = {}
NewErrors == EmptyObject

\* Faulty variant: the message is written into the values record
RecordError_intoData(st, field, message) ==
    [st EXCEPT !.data = Put(@, field, <<message>>)]

\* errors[field] = rule.message
RecordError(st, field, message) ==
    [st EXCEPT !.errors = Put(@, field, message)]

\* Faulty variant: no break: every failing rule overwrites the message
RECURSIVE ForRules_lastWins(_, _, _, _)
ForRules_lastWins(st, field, rules, i) ==
    IF i > Len(rules) THEN st
    ELSE LET r   == InvokeCheck(rules[i].check, Get(st.data, field), st.data)
             st1 == [st EXCEPT !.calls = Append(@, <<field, i>>)]
         IN  IF r = "throw" THEN [st1 EXCEPT !.thrown = TRUE]
             ELSE IF r = "false"
                  THEN ForRules_lastWins(
                           [st1 EXCEPT !.errors = Put(@, field, rules[i].message)],
                           field, rules, i + 1)
             ELSE ForRules_lastWins(st1, field, rules, i + 1)

\* Faulty variant: no break: the first message is kept but the later rules still run
RECURSIVE ForRules_keepGoing(_, _, _, _)
ForRules_keepGoing(st, field, rules, i) ==
    IF i > Len(rules) THEN st
    ELSE LET r   == InvokeCheck(rules[i].check, Get(st.data, field), st.data)
             st1 == [st EXCEPT !.calls = Append(@, <<field, i>>)]
         IN  IF r = "throw" THEN [st1 EXCEPT !.thrown = TRUE]
             ELSE IF r = "false" /\ field \notin DOMAIN st1.errors
                  THEN ForRules_keepGoing(
                           [st1 EXCEPT !.errors = Put(@, field, rules[i].message)],
                           field, rules, i + 1)
             ELSE ForRules_keepGoing(st1, field, rules, i + 1)

\* Faulty variant: the negation is lost: if (rule.check(...)) records the error
RECURSIVE ForRules_inverted(_, _, _, _)
ForRules_inverted(st, field, rules, i) ==
    IF i > Len(rules) THEN st
    ELSE LET r   == InvokeCheck(rules[i].check, Get(st.data, field), st.data)
             st1 == [st EXCEPT !.calls = Append(@, <<field, i>>)]
         IN  IF r = "throw" THEN [st1 EXCEPT !.thrown = TRUE]
             ELSE IF r = "true"
                  THEN [st1 EXCEPT !.errors = Put(@, field, rules[i].message)]
             ELSE ForRules_inverted(st1, field, rules, i + 1)

\* Faulty variant: a try/catch around the check turns a throw into a failed rule
RECURSIVE ForRules_catch(_, _, _, _)
ForRules_catch(st, field, rules, i) ==
    IF i > Len(rules) THEN st
    ELSE LET r   == InvokeCheck(rules[i].check, Get(st.data, field), st.data)
             st1 == [st EXCEPT !.calls = Append(@, <<field, i>>)]
         IN  IF r = "true" THEN ForRules_catch(st1, field, rules, i + 1)
             ELSE [st1 EXCEPT !.errors = Put(@, field, rules[i].message)]

\* for (const rule of rules) { if (!rule.check(data[field], data)) {...; break} }
RECURSIVE ForRules(_, _, _, _)
ForRules(st, field, rules, i) ==
    IF i > Len(rules) THEN st
    ELSE LET r   == InvokeCheck(rules[i].check, Get(st.data, field), st.data)
             st1 == [st EXCEPT !.calls = Append(@, <<field, i>>)]
         IN  IF r = "throw" THEN [st1 EXCEPT !.thrown = TRUE]
             ELSE IF r = "false" THEN RecordError(st1, field, rules[i].message)
             ELSE ForRules(st1, field, rules, i + 1)

\* Faulty variant: a key without a rule list is reported instead of skipped
RECURSIVE ForFields_flagMissing(_, _)
ForFields_flagMissing(st, k) ==
    IF st.thrown \/ k > Len(st.schema) THEN st
    ELSE IF ~st.schema[k].defined
         THEN ForFields_flagMissing(
                  [st EXCEPT !.errors = Put(@, st.schema[k].field, "no rules")], k + 1)
    ELSE ForFields_flagMissing(
             ForRules(st, st.schema[k].field, st.schema[k].rules, 1), k + 1)

\* Faulty variant: the whole pass stops at the first field that has an error
RECURSIVE ForFields_stopAtError(_, _)
ForFields_stopAtError(st, k) ==
    IF st.thrown \/ k > Len(st.schema) \/ st.errors /= EmptyObject THEN st
    ELSE IF ~st.schema[k].defined THEN ForFields_stopAtError(st, k + 1)
    ELSE ForFields_stopAtError(
             ForRules(st, st.schema[k].field, st.schema[k].rules, 1), k + 1)

\* for (const field in schema) { const rules = schema[field]; if (!rules) continue; ... }
RECURSIVE ForFields(_, _)
ForFields(st, k) ==
    IF st.thrown \/ k > Len(st.schema) THEN st
    ELSE IF ~st.schema[k].defined THEN ForFields(st, k + 1)
    ELSE ForFields(ForRules(st, st.schema[k].field, st.schema[k].rules, 1), k + 1)

\* one run of validate, from the allocation of errors to return or throw
Run(d, s) ==
    ForFields([data |-> d, schema |-> s, errors |-> NewErrors,
               calls |-> <<>>, thrown |-> FALSE], 1)

\* validate(d, s) of a call that returns: the Error Report
validate(d, s) == Run(d, s).errors

----------------------------------------------------------------------------
(* The inputs the calls are drawn from. *)

\* the strings a field's input can hold in the model
Values(f) ==
    CASE f = "name" ->
            { <<>>, <<" ">>, <<"A">>, <<"A", "l">> }
      [] f = "email" ->
            { <<>>, <<"a", "b">>, <<"a", "@", "b", ".", "c">> }
      [] f = "password" ->
            { <<>>, <<"a", "b", "c">>, <<"A", "b", "c", "d", "e", "f", "g", "1">> }
      [] f = "confirmPassword" ->
            { <<>>, <<"a", "b", "c">>, <<"A", "b", "c", "d", "e", "f", "g", "1">> }
      [] f = "age" ->
            { <<>>, <<" ">>, <<"a">>, <<"1", "7">>, <<"1", "8">>,
              <<"1", "2", "0">>, <<"1", "2", "1">> }
      [] f = "website" ->
            { <<>>, <<"n", "o">>,
              <<"h", "t", "t", "p", ":", "/", "/", "a", ".", "b">>,
              <<"h", "t", "t", "p", "s", ":", "/", "/", "a", ".", "b">> }

\* every record over the keys K whose values come from Values
RECURSIVE RecordsOver(_)
RecordsOver(K) ==
    IF K = {} THEN { EmptyObject }
    ELSE LET f == CHOOSE k \in K : TRUE
         IN  { Put(d, f, v) : d \in RecordsOver(K \ {f}), v \in Values(f) }

FieldSet == { Fields[k] : k \in 1..Len(Fields) }

\* the records with every key of RegistrationData, as the form builds them
CompleteRecords == RecordsOver(FieldSet)

\* a complete record with one key left out
Without(d, f) == [k \in DOMAIN d \ {f} |-> d[k]]

\* the fields of the generated schemas, and the keys of their records
SchemaFields == {"name", "confirmPassword"}
RecordFields == {"name", "password", "confirmPassword"}

\* records that hold any subset of the keys
PartialRecords == UNION { RecordsOver(K) : K \in SUBSET RecordFields }

\* the rule lists of at most MaxRules rules of field f of registrationSchema,
\* in any order, no rule twice
RuleLists(f) ==
    LET rules == { FieldRules(f)[i] : i \in 1..Len(FieldRules(f)) }
    IN  { r \in UNION { [1..n -> rules] : n \in 0..MaxRules } :
            \A i, j \in 1..Len(r) : r[i] = r[j] => i = j }

Entries(f) == { NoRulesEntry(f) } \cup { Entry(f, r) : r \in RuleLists(f) }

\* the schemas over any of SchemaFields, in any key order
SmallSchemas ==
    LET all == UNION { Entries(f) : f \in SchemaFields }
    IN  { s \in UNION { [1..n -> all] : n \in 0..Cardinality(SchemaFields) } :
            \A i, j \in 1..Len(s) : s[i].field = s[j].field => i = j }

\* the complete records a key is taken out of
IncompleteBase ==
    { d \in CompleteRecords :
        d["email"] = <<"a", "@", "b", ".", "c">> /\ d["age"] = <<"1", "8">> }

\* the (values, schema) pairs validate is called with
Inputs ==
    (PartialRecords \X SmallSchemas)
        \cup (CompleteRecords \X {registrationSchema})
        \cup ({ Without(d, f) : d \in IncompleteBase, f \in {"name", "confirmPassword", "website"} }
                \X {registrationSchema})

\* the calls other callers make between two calls of validate(data, schema)
OtherInputs ==
    { << [name |-> <<>>], << Entry("name", FieldRules("name")) >> >>,
      << [password |-> <<"a", "b", "c">>, confirmPassword |-> <<"x">>],
         << Entry("confirmPassword", FieldRules("confirmPassword")) >> >> }

----------------------------------------------------------------------------
(* The callers.  A behaviour draws one (values, schema) pair and calls     *)
(* validate on it; under SpecRepeat the call is repeated and other callers *)
(* run validate on their own inputs in between.                            *)

\* the component as first rendered: lines 148-173
FormInit ==
    /\ formData = [f \in FieldSet |-> <<>>]
    /\ errors = EmptyObject
    /\ touched = {}
    /\ submitStatus = "idle"
    /\ lastEvent = "none"
    /\ seen = {}

\* the fields of the Yup schema, and the defaultValues of useForm:
\* YupValidation.tsx lines 116-128
YupFields == {"name", "email", "age", "password", "website", "role", "agreeToTerms"}

YupDefaultValues ==
    [f \in YupFields |->
        CASE f \in {"age", "role"} -> Undefined
          [] f = "agreeToTerms"    -> FALSE
          [] OTHER                 -> <<>>]

\* the inputs of the form as first rendered: empty, the box unchecked
YupEmptyInputs ==
    [f \in YupFields |-> IF f = "agreeToTerms" THEN FALSE ELSE <<>>]

YupInit ==
    /\ yupDom = YupEmptyInputs
    /\ yupValues = YupDefaultValues
    /\ yupErrors = EmptyObject
    /\ yupSubmitted = FALSE
    /\ yupSubmitting = FALSE
    /\ yupSubmitResult = {}
    /\ yupLastPress = "none"

\* ZodValidation as first rendered: skills '', the required fields empty
ZodInit ==
    /\ zodSkills = <<>>
    /\ zodRest = FALSE
    /\ zodErrors = {}
    /\ zodSubmitted = FALSE
    /\ zodPending = {}
    /\ zodSubmitResult = {}
    /\ zodConsole = {}

\* EventsDemo as first rendered: an empty log, idRef 0
LogInit ==
    /\ eventLog = <<>>
    /\ idRef = 0

\* a chat message; ids and timestamps play no part in what the list holds
Message(text, author, sending) == [text |-> text, author |-> author, sending |-> sending]

\* INITIAL_MESSAGES: the two messages of 'Sistema', each text kept by its
\* first letter
INITIAL_MESSAGES ==
    << Message(<<"P">>, "Sistema", FALSE), Message(<<"O">>, "Sistema", FALSE) >>

\* the chat as first rendered
ChatInit ==
    /\ chatMessages = INITIAL_MESSAGES
    /\ chatError = {}
    /\ chatPending = <<>>
    /\ chatOptimistic = <<>>
    /\ chatSent = 0
    /\ chatEvent = "none"
    /\ chatText = <<>>

\* defaultValues of the team form: teamName '', one member with empty name
\* and email
TeamDefaultMembers == << FALSE >>

TeamInit ==
    /\ teamNameFilled = FALSE
    /\ teamMembers = TeamDefaultMembers
    /\ teamPending = {}
    /\ teamSubmitResult = {}
    /\ teamEvent = "none"

\* the initial state handed to useActionState
FeedbackInitialState == [status |-> "idle", message |-> <<>>, data |-> {}]

FeedbackInit ==
    /\ feedbackState = FeedbackInitialState
    /\ feedbackPending = {}
    /\ feedbackInput = {}
    /\ feedbackDelayed = FALSE

\* the state of the components other than VanillaValidation
PagesInit == YupInit /\ ZodInit /\ LogInit /\ ChatInit /\ TeamInit /\ FeedbackInit

Init ==
    /\ FormInit
    /\ PagesInit
    /\ \E in \in Inputs : data = in[1] /\ schema = in[2]
    /\ outcome = "idle"
    /\ result = {}
    /\ calls = <<>>
    /\ nCalls = 0
    /\ first = {}
    /\ last = EmptyObject
    /\ between = FALSE

\* const errs = validate(data, schema): a thrown exception leaves the
\* caller without a value
Validate ==
    /\ nCalls < MaxCalls
    /\ LET run == Run(data, schema)
           got == IF run.thrown THEN {} ELSE {run.errors}
       IN  /\ data' = run.data
           /\ schema' = run.schema
           /\ outcome' = IF run.thrown THEN "thrown" ELSE "returned"
           /\ result' = got
           /\ calls' = run.calls
           /\ first' = IF nCalls = 0 THEN got ELSE first
           /\ last' = run.errors
    /\ nCalls' = nCalls + 1
    /\ UNCHANGED <<between, exceptValidator>>

\* validate(d, s) called by someone else, on inputs of their own
ValidateElsewhere ==
    /\ ~between
    /\ \E in \in OtherInputs : last' = Run(in[1], in[2]).errors
    /\ between' = (nCalls >= 1)
    /\ UNCHANGED <<data, schema, outcome, result, calls, nCalls, first, exceptValidator>>

\* one call per drawn input
Next == nCalls = 0 /\ Validate

Spec == Init /\ [][Next]_vars

\* the inputs of the repeated calls: registrationSchema, and the schemas of
\* at most one key
InitRepeat == Init /\ (schema = registrationSchema \/ Len(schema) <= 1)

\* repeated calls, other callers in between
NextRepeat == Validate \/ ValidateElsewhere

SpecRepeat == InitRepeat /\ [][NextRepeat]_vars

----------------------------------------------------------------------------
(* What the claims are stated with: the rule outcomes under the current    *)
(* inputs, read off the predicates and not off the run.                    *)

\* the outcome of rule i of schema entry e on the current values
RuleOutcome(e, i) == InvokeCheck(e.rules[i].check, Get(data, e.field), data)

\* the indices of the rules of e whose predicate returns false
Failing(e) == { i \in 1..Len(e.rules) : RuleOutcome(e, i) = "false" }

Min(S) == CHOOSE x \in S : \A y \in S : x <= y

\* the entry of field f in report r: {} when r has no key f
EntryOf(r, f) == IF f \in DOMAIN r THEN { r[f] } ELSE {}

\* the schema entries validate looks at: the keys that hold a rule list
Ruled(s) == { k \in 1..Len(s) : s[k].defined }

\* the total number of rules of schema s
RECURSIVE RuleCount(_, _)
RuleCount(s, k) ==
    IF k > Len(s) THEN 0
    ELSE (IF s[k].defined THEN Len(s[k].rules) ELSE 0) + RuleCount(s, k + 1)

----------------------------------------------------------------------------
(* C1.  First failure wins: in the report a call returns, every schema     *)
(* field that has a rule whose predicate returns false carries the message *)
(* of its lowest-index failing rule, and nothing else.                     *)
C1_FirstFailureWins ==
    outcome = "returned" =>
        \A r \in result : \A k \in Ruled(schema) :
            Failing(schema[k]) /= {} =>
                EntryOf(r, schema[k].field)
                    = { schema[k].rules[Min(Failing(schema[k]))].message }

\* the name rules [filled, min] on "A": the first rule passes, the second
\* fails, and the report holds the second message
C1_Witness ==
    /\ outcome = "returned"
    /\ schema = << Entry("name", SubSeq(FieldRules("name"), 1, 2)) >>
    /\ Get(data, "name") = <<"A">>
    /\ result = { [name |-> "Minimum 2 simvola"] }

(* C2.  The report of a call that returns has no key for a field whose     *)
(* rules all pass, and it is empty exactly when every rule of every        *)
(* schema field passes.                                                    *)
C2_NoEntryForPassingField ==
    outcome = "returned" =>
        \A r \in result :
            /\ \A k \in Ruled(schema) :
                   (\A i \in 1..Len(schema[k].rules) : RuleOutcome(schema[k], i) = "true")
                       => schema[k].field \notin DOMAIN r
            /\ (r = EmptyObject) <=>
                   \A k \in Ruled(schema) : \A i \in 1..Len(schema[k].rules) :
                       RuleOutcome(schema[k], i) = "true"

\* registrationSchema on a record that passes every rule: the empty report
C2_Witness ==
    /\ outcome = "returned"
    /\ schema = registrationSchema
    /\ result = { EmptyObject }
    /\ Len(calls) = RuleCount(registrationSchema, 1)

(* C3.  A key of the schema that is missing from values is validated as    *)
(* the empty string: the call ends as the call on the same values with     *)
(* that key set to '' ends.                                                *)
C3_MissingKeyAsEmpty ==
    outcome /= "idle" =>
        \A k \in Ruled(schema) :
            schema[k].field \notin DOMAIN data =>
                LET filled == Run(Put(data, schema[k].field, <<>>), schema)
                IN  /\ (outcome = "thrown") = filled.thrown
                    /\ (outcome = "returned" => result = { filled.errors })

(* C4.  The keys of the report are keys of the schema that hold a          *)
(* non-empty rule list: no key for an empty schema, for a field with an    *)
(* empty or absent rule list, or for a field of values the schema lacks.   *)
C4_KeysAreRuledFields ==
    outcome = "returned" =>
        \A r \in result :
            DOMAIN r \subseteq
                { schema[k].field : k \in { j \in Ruled(schema) : schema[j].rules /= <<>> } }

\* a call that returned on values with a key the schema lacks, a key whose
\* rule list is absent and a second key that produced an error
C4_Witness ==
    /\ outcome = "returned"
    /\ Len(schema) = 2
    /\ ~schema[1].defined
    /\ schema[2].defined
    /\ result /= { EmptyObject }
    /\ "password" \in DOMAIN data

(* C6.  Early exit: in one call no predicate is invoked twice, a rule is   *)
(* invoked only when every earlier rule of its field returned true, and    *)
(* the number of invocations is at most the number of rules of the schema. *)
C6_EarlyExit ==
    /\ \A i, j \in 1..Len(calls) : calls[i] = calls[j] => i = j
    /\ \A i \in 1..Len(calls) :
           \E k \in Ruled(schema) :
               /\ schema[k].field = calls[i][1]
               /\ calls[i][2] \in 1..Len(schema[k].rules)
               /\ \A m \in 1..(calls[i][2] - 1) : RuleOutcome(schema[k], m) = "true"
    /\ Len(calls) <= RuleCount(schema, 1)

\* a field whose first rule fails and which has a later rule: one
\* invocation for that field
C6_Witness ==
    /\ outcome = "returned"
    /\ \E k \in Ruled(schema) :
           /\ Len(schema[k].rules) >= 2
           /\ RuleOutcome(schema[k], 1) = "false"
           /\ RuleOutcome(schema[k], 2) = "false"
           /\ { i \in 1..Len(calls) : calls[i][1] = schema[k].field } /= {}
    /\ Len(calls) < RuleCount(schema, 1)

(* C5.  A call of validate changes neither values nor schema, and the      *)
(* report it returns is a fresh mapping: every key it holds was written by *)
(* a failing rule of this very call, whatever earlier calls reported.      *)
FreshReport ==
    \A r \in result : \A f \in DOMAIN r :
        \E i \in 1..Len(calls) : \E k \in Ruled(schema) :
            /\ calls[i] = <<f, calls[i][2]>>
            /\ schema[k].field = f
            /\ calls[i][2] \in 1..Len(schema[k].rules)
            /\ RuleOutcome(schema[k], calls[i][2]) = "false"

C5_NoMutation ==
    [][data' = data /\ schema' = schema /\ FreshReport']_vars

\* registrationSchema called again after another caller's call left a
\* report of its own, and the second call returned errors
C5_Witness ==
    /\ nCalls = 2
    /\ between
    /\ schema = registrationSchema
    /\ outcome = "returned"
    /\ \E r \in result : DOMAIN r /= {} /\ "name" \notin DOMAIN r

(* C7.  Determinism: every later call of validate on the same values and   *)
(* schema ends as the first one did, with an equal report, whatever calls  *)
(* other callers made in between.                                          *)
C7_Deterministic ==
    nCalls >= 1 =>
        /\ result = first
        /\ (outcome = "thrown") <=> (first = {})

\* a second call on a one-key schema, after another caller's call, with a
\* report equal to the first call's
C7_Witness ==
    /\ nCalls = 2
    /\ between
    /\ Len(schema) = 1
    /\ first /= {}
    /\ first /= { EmptyObject }
    /\ result = first

(* C8.  Field independence: the entry of a field in the report is the same *)
(* when the field is validated alone, when the keys of the schema are      *)
(* iterated in the opposite order, and when the rule list of another field *)
(* is removed, emptied, reordered or replaced (of the runs that return).   *)
Reverse(s) == [k \in 1..Len(s) |-> s[Len(s) + 1 - k]]

OtherRuleLists(e) ==
    { NoRulesEntry(e.field), Entry(e.field, <<>>),
      Entry(e.field, FieldRules(e.field)), Entry(e.field, Reverse(e.rules)) }

Variants(s, k) ==
    { << s[k] >>, Reverse(s) }
        \cup UNION { { [s EXCEPT ![j] = e] : e \in OtherRuleLists(s[j]) } :
                        j \in (1..Len(s)) \ {k} }

C8_FieldIndependence ==
    outcome = "returned" =>
        \A r \in result : \A k \in 1..Len(schema) : \A s2 \in Variants(schema, k) :
            LET other == Run(data, s2)
            IN  ~other.thrown =>
                    EntryOf(other.errors, schema[k].field) = EntryOf(r, schema[k].field)

\* two keys that both have an error: each entry is the one the field gets
\* alone
C8_Witness ==
    /\ outcome = "returned"
    /\ Len(schema) = 2
    /\ \A r \in result : DOMAIN r = { schema[1].field, schema[2].field }
    /\ schema[1].field = "confirmPassword"

(* C9.  A predicate that throws ends the call: the caller gets no report,  *)
(* not even the entries recorded so far, the throwing invocation is the    *)
(* last one, and no rule of a later field is evaluated.  A call throws     *)
(* only then.                                                              *)

\* the index of the first rule of e that does not return true; 0 when all do
FirstStop(e) ==
    LET stops == { i \in 1..Len(e.rules) : RuleOutcome(e, i) /= "true" }
    IN  IF stops = {} THEN 0 ELSE Min(stops)

\* the keys whose evaluation reaches a predicate that throws
ThrowingKeys ==
    { k \in Ruled(schema) :
        /\ FirstStop(schema[k]) /= 0
        /\ RuleOutcome(schema[k], FirstStop(schema[k])) = "throw" }

C9_ThrowPropagates ==
    outcome /= "idle" =>
        /\ (outcome = "thrown") <=> (ThrowingKeys /= {})
        /\ ThrowingKeys /= {} =>
               LET k == Min(ThrowingKeys)
               IN  /\ result = {}
                   /\ calls /= <<>>
                   /\ calls[Len(calls)] = << schema[k].field, FirstStop(schema[k]) >>
                   /\ \A i \in 1..Len(calls) :
                          calls[i][1] \in { schema[j].field : j \in 1..k }

\* registrationSchema on values without confirmPassword: name has failed,
\* confirmPassword throws, age and website are never evaluated
C9_Witness ==
    /\ outcome = "thrown"
    /\ schema = registrationSchema
    /\ "confirmPassword" \notin DOMAIN data
    /\ Failing(schema[1]) /= {}
    /\ result = {}
    /\ \A i \in 1..Len(calls) : calls[i][1] \notin {"age", "website"}

(* C10.  Cross-field confirmation under registrationSchema: the report has *)
(* no confirmPassword entry exactly when confirmPassword is non-empty and  *)
(* equal to password; a non-empty different value gives 'Paroli ne         *)
(* sovpadayut' and the empty value gives 'Podtverdite parol', also when    *)
(* password is empty.                                                      *)
C10_CrossFieldConfirmation ==
    (/\ outcome = "returned"
     /\ schema = registrationSchema
     /\ {"password", "confirmPassword"} \subseteq DOMAIN data) =>
        \A r \in result :
            LET c  == data["confirmPassword"]
                pw == data["password"]
            IN  /\ ("confirmPassword" \notin DOMAIN r) <=> (c /= <<>> /\ c = pw)
                /\ (c /= <<>> /\ c /= pw) =>
                       EntryOf(r, "confirmPassword") = { "Paroli ne sovpadayut" }
                /\ c = <<>> =>
                       EntryOf(r, "confirmPassword") = { "Podtverdite parol" }

\* both password and confirmPassword empty: 'Podtverdite parol'
C10_Witness ==
    /\ outcome = "returned"
    /\ schema = registrationSchema
    /\ Get(data, "password") = <<>>
    /\ Get(data, "confirmPassword") = <<>>
    /\ \E r \in result : EntryOf(r, "confirmPassword") = { "Podtverdite parol" }

(* C11 as the specification states it, with "non-numeric" read as "holds   *)
(* no digit": under registrationSchema the empty age reports 'Vozrast      *)
(* obyazatelen', every non-empty age without a digit reports 'Vvedite      *)
(* chislo', and a decimal integer n reports 'Minimum 18 let' below 18,     *)
(* 'Proverte vozrast' above 120 and nothing from 18 to 120.                *)
NoDigit(a) == \A i \in 1..Len(a) : a[i] \notin DigitChars
Blank(a) == \A i \in 1..Len(a) : a[i] \in SpaceChars

\* what the report must hold for a decimal integer age
DecimalAgeEntry(a) ==
    LET n == DigitsValue(a, 0)
    IN  IF n < 18 THEN { "Minimum 18 let" }
        ELSE IF n > 120 THEN { "Proverte vozrast" }
        ELSE {}

AgeCase ==
    /\ outcome = "returned"
    /\ schema = registrationSchema
    /\ "age" \in DOMAIN data

C11_AgeRulesAsStated ==
    AgeCase =>
        \A r \in result :
            LET a == data["age"]
            IN  /\ a = <<>> => EntryOf(r, "age") = { "Vozrast obyazatelen" }
                /\ (a /= <<>> /\ NoDigit(a)) =>
                       EntryOf(r, "age") = { "Vvedite chislo" }
                /\ (a /= <<>> /\ AllDigits(a)) =>
                       EntryOf(r, "age") = DecimalAgeEntry(a)

(* C11, amended.  Under registrationSchema the empty age reports 'Vozrast  *)
(* obyazatelen'; a non-empty age of blanks only converts to 0 and reports  *)
(* 'Minimum 18 let'; any other age without a digit reports 'Vvedite        *)
(* chislo'; a decimal integer n reports 'Minimum 18 let' below 18,         *)
(* 'Proverte vozrast' above 120 and nothing from 18 to 120.                *)
C11_AgeRules ==
    AgeCase =>
        \A r \in result :
            LET a == data["age"]
            IN  /\ a = <<>> => EntryOf(r, "age") = { "Vozrast obyazatelen" }
                /\ (a /= <<>> /\ Blank(a)) =>
                       EntryOf(r, "age") = { "Minimum 18 let" }
                /\ (a /= <<>> /\ NoDigit(a) /\ ~Blank(a)) =>
                       EntryOf(r, "age") = { "Vvedite chislo" }
                /\ (a /= <<>> /\ AllDigits(a)) =>
                       EntryOf(r, "age") = DecimalAgeEntry(a)

\* the age "18", the lowest one that passes, has no entry
C11_Witness ==
    /\ AgeCase
    /\ data["age"] = <<"1", "8">>
    /\ \E r \in result : "age" \notin DOMAIN r

(* C12.  website is optional under registrationSchema: the empty value     *)
(* gives no website entry, and with every other field passing the report   *)
(* is empty; a non-empty value gives no entry exactly when it matches the  *)
(* http(s) pattern, and otherwise the one message of the rule.             *)
WebsiteCase ==
    /\ outcome = "returned"
    /\ schema = registrationSchema
    /\ "website" \in DOMAIN data

C12_WebsiteOptional ==
    WebsiteCase =>
        \A r \in result :
            LET w == data["website"]
            IN  /\ w = <<>> => "website" \notin DOMAIN r
                /\ (w = <<>> /\ DOMAIN r \subseteq {"website"}) => r = EmptyObject
                /\ (w /= <<>> /\ UrlPattern(w)) => "website" \notin DOMAIN r
                /\ (w /= <<>> /\ ~UrlPattern(w)) =>
                       EntryOf(r, "website") =
                           { "URL dolzhen nachinatsya s http:// ili https://" }

\* every other field passes and website is empty: the report is empty
C12_Witness ==
    /\ WebsiteCase
    /\ data["website"] = <<>>
    /\ DOMAIN data = FieldSet
    /\ result = { EmptyObject }

----------------------------------------------------------------------------
(* The component VanillaValidation: the form state and its handlers.  A    *)
(* handler runs as one step on the state of the render it was created in;  *)
(* the form is rendered while submitStatus is "idle", the reset button     *)
(* while it is "success".                                                  *)

\* the texts the user types into the input of field f
FormValues(f) ==
    CASE f = "name" -> { <<>>, <<"A", "l">> }
      [] f = "email" -> { <<>>, <<"a", "@", "b", ".", "c">> }
      [] f = "password" ->
            { <<>>, <<"a", "b", "c">>, <<"A", "b", "c", "d", "e", "f", "g", "1">> }
      [] f = "confirmPassword" ->
            { <<>>, <<"A", "b", "c", "d", "e", "f", "g", "1">> }
      [] f = "age" -> { <<>>, <<"1", "8">> }
      [] f = "website" -> { <<>>, <<"n", "o">> }

\* a report as the errors state holds it: each message boxed
Boxed(r) == [k \in DOMAIN r |-> { r[k] }]

\* errors[field]
ErrorOf(e, f) == IF f \in DOMAIN e THEN e[f] ELSE {}

\* Faulty variant: every change validates
ValidatesOnChange_always(name) == TRUE
\* if (touched.has(name))
ValidatesOnChange(name) == name \in touched

\* Faulty variant: typing marks the field touched
TouchedAfterChange_marks(name) == touched \cup {name}
\* handleChange does not call setTouched
TouchedAfterChange(name) == touched

\* Faulty variant: the handler stores the whole report
WriteEntry_whole(errs, name, report) == Boxed(report)
\* setErrors((prev) => ({ ...prev, [name]: newErrors[name] }))
WriteEntry(errs, name, report) == Put(errs, name, EntryOf(report, name))

\* handleChange, for the input of field name now holding value
HandleChange(name, value) ==
    /\ submitStatus = "idle"
    /\ value /= formData[name]
    /\ LET newData == [formData EXCEPT ![name] = value]
       IN  /\ formData' = newData
           /\ errors' =
                 IF ValidatesOnChange(name)
                 THEN WriteEntry(errors, name, validate(newData, registrationSchema))
                 ELSE errors
    /\ touched' = TouchedAfterChange(name)
    /\ lastEvent' = "change"
    /\ UNCHANGED <<submitStatus, seen, exceptForm>>

\* handleBlur, for the input of field name
HandleBlur(name) ==
    /\ submitStatus = "idle"
    /\ touched' = touched \cup {name}
    /\ errors' = WriteEntry(errors, name, validate(formData, registrationSchema))
    /\ lastEvent' = "blur"
    /\ seen' = seen \cup {name}
    /\ UNCHANGED <<formData, submitStatus, exceptForm>>

\* Faulty variant: the form is sent whatever the report holds
StatusAfterSubmit_unchecked(validationErrors) == "success"
\* if (Object.keys(validationErrors).length > 0) return; setSubmitStatus('success')
StatusAfterSubmit(validationErrors) ==
    IF Cardinality(DOMAIN validationErrors) > 0 THEN submitStatus ELSE "success"

\* Faulty variant: submit leaves touched as it is
AllTouched_kept == touched
\* new Set(Object.keys(formData))
AllTouched == DOMAIN formData

\* handleSubmit
HandleSubmit ==
    /\ submitStatus = "idle"
    /\ touched' = AllTouched
    /\ LET validationErrors == validate(formData, registrationSchema)
       IN  /\ errors' = Boxed(validationErrors)
           /\ submitStatus' = StatusAfterSubmit(validationErrors)
    /\ lastEvent' = "submit"
    /\ seen' = DOMAIN formData
    /\ UNCHANGED <<formData, exceptForm>>

\* Faulty variant: the reset forgets setTouched(new Set())
FillAgain_keepsTouched ==
    /\ submitStatus = "success"
    /\ formData' = [f \in FieldSet |-> <<>>]
    /\ errors' = EmptyObject
    /\ submitStatus' = "idle"
    /\ lastEvent' = "reset"
    /\ seen' = {}
    /\ UNCHANGED <<touched, exceptForm>>
\* the onClick of the button of the success view
FillAgain ==
    /\ submitStatus = "success"
    /\ formData' = [f \in FieldSet |-> <<>>]
    /\ errors' = EmptyObject
    /\ touched' = {}
    /\ submitStatus' = "idle"
    /\ lastEvent' = "reset"
    /\ seen' = {}
    /\ UNCHANGED exceptForm

\* showError(field)
ShowError(field) == IF field \in touched THEN ErrorOf(errors, field) ELSE {}

\* no call of validate other than the handlers' own
ValidatorIdle ==
    /\ data = EmptyObject
    /\ schema = <<>>
    /\ outcome = "idle"
    /\ result = {}
    /\ calls = <<>>
    /\ nCalls = 0
    /\ first = {}
    /\ last = EmptyObject
    /\ between = FALSE

InitForm == ValidatorIdle /\ FormInit /\ PagesInit

NextForm ==
    \/ \E name \in FieldSet : \E value \in FormValues(name) : HandleChange(name, value)
    \/ \E name \in FieldSet : HandleBlur(name)
    \/ HandleSubmit
    \/ FillAgain

SpecForm == InitForm /\ [][NextForm]_vars

\* the Error Report of the current formData
CurrentReport == validate(formData, registrationSchema)

(* C13.  Every step into or within the success state ends with an empty    *)
(* Error Report of formData: a submit whose report is non-empty leaves     *)
(* submitStatus at "idle", and formData does not change while the status   *)
(* stays "success".                                                        *)
C13_SuccessMeansValid ==
    [][ /\ submitStatus' = "success" => validate(formData', registrationSchema) = EmptyObject
        /\ (lastEvent' = "submit" /\ validate(formData, registrationSchema) /= EmptyObject)
              => submitStatus' = "idle"
        /\ (submitStatus = "success" /\ submitStatus' = "success")
              => formData' = formData ]_vars

\* a submit of a form whose six fields all pass
C13_Witness ==
    /\ submitStatus = "success"
    /\ lastEvent = "submit"
    /\ formData["website"] = <<>>
    /\ formData["confirmPassword"] = formData["password"]

(* C14.  After a submit attempt touched holds every field of the form and  *)
(* errors is the full Error Report of formData, so every field with a      *)
(* failing rule shows its message, also one that was never blurred.        *)
C14_SubmitShowsAll ==
    lastEvent = "submit" =>
        /\ touched = FieldSet
        /\ errors = Boxed(CurrentReport)
        /\ \A f \in FieldSet : ShowError(f) = EntryOf(CurrentReport, f)

\* a submit of the form as first rendered: five messages at once
C14_Witness ==
    /\ lastEvent = "submit"
    /\ submitStatus = "idle"
    /\ \A f \in FieldSet : formData[f] = <<>>
    /\ Cardinality({ f \in FieldSet : ShowError(f) /= {} }) = 5

(* C15.  A message is displayed for a field only if the field is touched,  *)
(* and a field is touched only by a blur or a submit: an untouched field   *)
(* displays nothing, so nothing is displayed in the initial state or for a *)
(* field that was only typed into.                                         *)
C15_ErrorsOnlyWhenTouched ==
    \A f \in FieldSet :
        /\ f \notin touched => ShowError(f) = {}
        /\ ShowError(f) /= {} => f \in seen

\* password holds a failing text that was only typed, and shows nothing,
\* while the blurred name shows its message
C15_Witness ==
    /\ formData["password"] = <<"a", "b", "c">>
    /\ "password" \notin touched
    /\ ShowError("password") = {}
    /\ ShowError("name") = { "Imya obyazatelno" }

(* C16.  A change of an untouched field updates formData for that field    *)
(* only and leaves errors and touched as they are.                         *)
C16_UntouchedChangeFrame ==
    [][ \A f \in FieldSet :
          (/\ submitStatus = "idle"
           /\ f \notin touched
           /\ formData'[f] /= formData[f]) =>
              /\ errors' = errors
              /\ touched' = touched
              /\ \A g \in FieldSet \ {f} : formData'[g] = formData[g] ]_vars

\* a failing text typed into the untouched password while name shows its
\* message: errors holds the entry of name only
C16_Witness ==
    /\ lastEvent = "change"
    /\ formData["password"] = <<"a", "b", "c">>
    /\ "password" \notin touched
    /\ DOMAIN errors = {"name"}

(* C17.  In every state the errors entry of every touched field is that   *)
(* field's entry in the Error Report of the current formData; so the       *)
(* message of confirmPassword follows password when password is edited.    *)
C17_TouchedErrorsCurrent ==
    \A f \in touched : ErrorOf(errors, f) = EntryOf(CurrentReport, f)

----------------------------------------------------------------------------
(* The component YupValidation: a React Hook Form form checked by a Yup     *)
(* schema through yupResolver.  An input that spreads register(field)       *)
(* reports its changes and blurs to React Hook Form; the form values start  *)
(* as defaultValues and follow the registered inputs.  The schema is run    *)
(* on the form values: on blur before the first submit (mode "onBlur"), on  *)
(* change after it (reValidateMode "onChange", the default), and on submit. *)

\* the options of the role select
YupRoles ==
    { <<"d", "e", "v", "e", "l", "o", "p", "e", "r">>,
      <<"d", "e", "s", "i", "g", "n", "e", "r">>,
      <<"m", "a", "n", "a", "g", "e", "r">>,
      <<"o", "t", "h", "e", "r">> }

\* the inputs that spread register(field): lines 189-255
Registered == {"email", "age", "password", "website", "role", "agreeToTerms"}

\* what the user puts into the input of field f
YupInputs(f) ==
    CASE f = "name" -> { <<>>, <<"A", "l">> }
      [] f = "email" -> { <<>>, <<"a", "@", "b", ".", "c">> }
      [] f = "age" -> { <<>>, <<"1", "8">> }
      [] f = "password" -> { <<>>, <<"A", "b", "c", "d", "e", "f", "g", "1">> }
      [] f = "website" -> { <<>>, <<"n", "o">> }
      [] f = "role" -> { <<>>, <<"d", "e", "v", "e", "l", "o", "p", "e", "r">> }
      [] f = "agreeToTerms" -> { FALSE, TRUE }

\* yup.string().email(): a local part, "@" and a domain
YupEmail(v) ==
    \E i \in 1..Len(v) :
        v[i] = "@" /\ PlainRun(v, 1, i - 1) /\ PlainRun(v, i + 1, Len(v))

\* the first failing test of field f of registrationSchema on value v:
\* {} when every test passes
YupFieldError(f, v) ==
    CASE f = "name" ->
            IF v = Undefined \/ v = <<>> THEN { "Imya obyazatelno" }
            ELSE IF Len(v) < 2 THEN { "Minimum 2 simvola" }
            ELSE IF Len(v) > 50 THEN { "Maksimum 50 simvolov" }
            ELSE {}
      [] f = "email" ->
            IF v = Undefined \/ v = <<>> THEN { "Email obyazatelen" }
            ELSE IF ~YupEmail(v) THEN { "Nekorrektnyi format email" }
            ELSE {}
      [] f = "age" ->
            IF v = Undefined THEN { "Vozrast obyazatelen" }
            ELSE IF Trim(v) = <<>> \/ ToNumber(v).nan THEN { "Vvedite chislo" }
            ELSE IF ToNumber(v).n < 18 THEN { "Minimum 18 let" }
            ELSE IF ToNumber(v).n > 120 THEN { "Maksimum 120 let" }
            ELSE {}
      [] f = "password" ->
            IF v = Undefined \/ v = <<>> THEN { "Parol obyazatelen" }
            ELSE IF Len(v) < 8 THEN { "Minimum 8 simvolov" }
            ELSE IF ~HasUpper(v) THEN { "Nuzhna khotya by odna zaglavnaya bukva" }
            ELSE IF ~HasLower(v) THEN { "Nuzhna khotya by odna strochnaya bukva" }
            ELSE IF ~HasDigit(v) THEN { "Nuzhna khotya by odna tsifra" }
            ELSE {}
      [] f = "website" ->
            IF v = Undefined \/ v = <<>> \/ UrlPattern(v) THEN {}
            ELSE { "Nekorrektnyi URL" }
      [] f = "role" ->
            IF v = Undefined THEN { "Rol obyazatelna" }
            ELSE IF v \notin YupRoles THEN { "Vyberite rol iz spiska" }
            ELSE {}
      [] f = "agreeToTerms" ->
            IF v = TRUE THEN {} ELSE { "Neobkhodimo prinyat usloviya" }

\* the errors yupResolver(registrationSchema) returns for the values
YupReport(values) ==
    LET failing == { f \in YupFields : YupFieldError(f, values[f]) /= {} }
    IN  [f \in failing |-> CHOOSE msg \in YupFieldError(f, values[f]) : TRUE]

\* errors with the entry of field f taken from report
WithEntry(errs, f, report) ==
    LET keys == IF f \in DOMAIN report THEN DOMAIN errs \cup {f} ELSE DOMAIN errs \ {f}
    IN  [k \in keys |-> IF k = f THEN report[f] ELSE errs[k]]

\* Variant: the name input spreads register("name") as well, which is what
\* the comment of lines 184-188 describes
Reports_all(f) == TRUE
\* whether the input of field f spreads register(f)
Reports(f) == f \in Registered

\* the user changes what the input of field f holds
YupChange(f, v) ==
    /\ yupSubmitResult = {}
    /\ v /= yupDom[f]
    /\ yupDom' = [yupDom EXCEPT ![f] = v]
    /\ yupLastPress' = "none"
    /\ IF Reports(f)
       THEN LET values == [yupValues EXCEPT ![f] = v]
            IN  /\ yupValues' = values
                /\ yupErrors' = IF yupSubmitted
                                THEN WithEntry(yupErrors, f, YupReport(values))
                                ELSE yupErrors
       ELSE UNCHANGED <<yupValues, yupErrors>>
    /\ UNCHANGED <<yupSubmitted, yupSubmitting, yupSubmitResult, exceptYup>>

\* the input of field f loses the focus
YupBlur(f) ==
    /\ yupSubmitResult = {}
    /\ yupErrors' = IF Reports(f) /\ ~yupSubmitted
                    THEN WithEntry(yupErrors, f, YupReport(yupValues))
                    ELSE yupErrors
    /\ UNCHANGED <<yupDom, yupValues, yupSubmitted, yupSubmitting, yupSubmitResult,
                   yupLastPress, exceptYup>>

\* handleSubmit(onSubmit): the submit button is pressed; onSubmit is called
\* when the schema reports nothing
YupSubmit ==
    /\ yupSubmitResult = {}
    /\ ~yupSubmitting
    /\ LET report == YupReport(yupValues)
       IN  /\ yupErrors' = report
           /\ yupSubmitting' = (report = EmptyObject)
           /\ yupLastPress' = IF report = EmptyObject THEN "accepted" ELSE "rejected"
    /\ yupSubmitted' = TRUE
    /\ UNCHANGED <<yupDom, yupValues, yupSubmitResult, exceptYup>>

\* onSubmit after its timer: setSubmitResult(data)
YupOnSubmit ==
    /\ yupSubmitting
    /\ yupSubmitResult' = { yupValues }
    /\ yupSubmitting' = FALSE
    /\ UNCHANGED <<yupDom, yupValues, yupErrors, yupSubmitted, yupLastPress,
                   exceptYup>>

\* the button of the success view: setSubmitResult(null); reset()
YupFillAgain ==
    /\ yupSubmitResult /= {}
    /\ YupInit'
    /\ UNCHANGED exceptYup

InitYup == ValidatorIdle /\ FormInit /\ PagesInit

\* YupOnSubmit and YupFillAgain are left out: they are enabled only after a
\* submit that the schema lets through
NextYup ==
    \/ \E f \in YupFields : \E v \in YupInputs(f) : YupChange(f, v)
    \/ \E f \in YupFields : YupBlur(f)
    \/ YupSubmit

SpecYup == InitYup /\ [][NextYup]_vars

\* every step of the component
NextYupAll == NextYup \/ YupOnSubmit \/ YupFillAgain

SpecYupAll == InitYup /\ [][NextYupAll]_vars

(* C18.  The Yup form can be completed: when what the rendered inputs hold  *)
(* passes the schema, field by field, a press of submit is accepted and     *)
(* onSubmit is called; and onSubmit is called only when the form values     *)
(* pass the schema.                                                         *)
C18_CanBeCompleted ==
    /\ (yupLastPress /= "none" /\ YupReport(yupDom) = EmptyObject)
          => yupLastPress = "accepted"
    /\ yupLastPress = "accepted" => YupReport(yupValues) = EmptyObject

----------------------------------------------------------------------------
(* The component ZodValidation: a React Hook Form form checked by           *)
(* profileSchema.  The model keeps the text of the skills input; the other  *)
(* nine inputs, all registered, are kept as one flag: whether their values  *)
(* pass the schema.  onSubmit waits for its timer with the data it was      *)
(* called with, while the inputs stay editable.                             *)

\* the characters typed into the skills input
SkillChars == {"a", ",", " "}

SkillsTexts == UNION { [1..n -> SkillChars] : n \in 0..MaxSkillsLen }

\* s.split(','), from position i on, cur being the part read so far
RECURSIVE SplitFrom(_, _, _)
SplitFrom(s, i, cur) ==
    IF i > Len(s) THEN << cur >>
    ELSE IF s[i] = "," THEN << cur >> \o SplitFrom(s, i + 1, <<>>)
    ELSE SplitFrom(s, i + 1, Append(cur, s[i]))

Split(s) == SplitFrom(s, 1, <<>>)

\* .map((s) => s.trim())
MapTrim(parts) == [i \in 1..Len(parts) |-> Trim(parts[i])]

\* .filter(Boolean): the empty string is the falsy one
NonEmpty(s) == s /= <<>>
FilterBoolean(parts) == SelectSeq(parts, NonEmpty)

\* data.skills.split(',').map((s) => s.trim()).filter(Boolean)
SkillsArray(text) == FilterBoolean(MapTrim(Split(text)))

\* a skills value with its JavaScript type
AsString(text) == [kind |-> "string", value |-> text]
AsArray(items) == [kind |-> "array", value |-> items]

\* the parts of the form profileSchema reports: skills is z.string().min(1)
ZodReport(skills, rest) ==
    (IF Len(skills) < 1 THEN {"skills"} ELSE {})
        \cup (IF rest THEN {} ELSE {"rest"})

\* errs with the entry of one part taken from report
WithPart(errs, part, report) == (errs \ {part}) \cup (report \cap {part})

\* the user changes the text of the skills input
ZodChangeSkills(text) ==
    /\ zodSubmitResult = {}
    /\ text /= zodSkills
    /\ zodSkills' = text
    /\ zodErrors' = IF zodSubmitted
                    THEN WithPart(zodErrors, "skills", ZodReport(text, zodRest))
                    ELSE zodErrors
    /\ UNCHANGED <<zodRest, zodSubmitted, zodPending, zodSubmitResult, zodConsole, exceptZod>>

\* the user changes one of the other inputs, which makes or breaks them
ZodChangeRest ==
    /\ zodSubmitResult = {}
    /\ zodRest' = ~zodRest
    /\ zodErrors' = IF zodSubmitted
                    THEN WithPart(zodErrors, "rest", ZodReport(zodSkills, ~zodRest))
                    ELSE zodErrors
    /\ UNCHANGED <<zodSkills, zodSubmitted, zodPending, zodSubmitResult, zodConsole, exceptZod>>

\* an input loses the focus (mode: 'onBlur')
ZodBlur(part) ==
    /\ zodSubmitResult = {}
    /\ ~zodSubmitted
    /\ zodErrors' = WithPart(zodErrors, part, ZodReport(zodSkills, zodRest))
    /\ UNCHANGED <<zodSkills, zodRest, zodSubmitted, zodPending, zodSubmitResult,
                   zodConsole, exceptZod>>

\* handleSubmit(onSubmit): the button, disabled while isSubmitting, is pressed
ZodSubmit ==
    /\ zodSubmitResult = {}
    /\ zodPending = {}
    /\ LET report == ZodReport(zodSkills, zodRest)
       IN  /\ zodErrors' = report
           /\ zodPending' = IF report = {} THEN { [skills |-> AsString(zodSkills)] }
                            ELSE {}
    /\ zodSubmitted' = TRUE
    /\ UNCHANGED <<zodSkills, zodRest, zodSubmitResult, zodConsole, exceptZod>>

\* onSubmit after its timer: result is computed and logged, data is shown
ZodOnSubmit ==
    /\ \E d \in zodPending :
          LET res == [d EXCEPT !.skills = AsArray(SkillsArray(d.skills.value))]
          IN  /\ zodSubmitResult' = { d }
              /\ zodConsole' = { res }
    /\ zodPending' = {}
    /\ UNCHANGED <<zodSkills, zodRest, zodErrors, zodSubmitted, exceptZod>>

\* the button of the success view: setSubmitResult(null); reset()
ZodFillAgain ==
    /\ zodSubmitResult /= {}
    /\ zodSubmitResult' = {}
    /\ zodSkills' = <<>>
    /\ zodRest' = FALSE
    /\ zodErrors' = {}
    /\ zodSubmitted' = FALSE
    /\ UNCHANGED <<zodPending, zodConsole, exceptZod>>

InitZod == ValidatorIdle /\ FormInit /\ PagesInit

NextZod ==
    \/ \E text \in SkillsTexts : ZodChangeSkills(text)
    \/ ZodChangeRest
    \/ \E part \in {"skills", "rest"} : ZodBlur(part)
    \/ ZodSubmit
    \/ ZodOnSubmit
    \/ ZodFillAgain

SpecZod == InitZod /\ [][NextZod]_vars

(* C19.  After a successful submit of the Zod form the result shown has     *)
(* skills as an array of trimmed, non-empty strings: the array onSubmit     *)
(* computes from the comma-separated text.                                  *)
C19_SkillsShownAsArray ==
    \A shown \in zodSubmitResult :
        /\ shown.skills.kind = "array"
        /\ \A i \in 1..Len(shown.skills.value) :
              /\ shown.skills.value[i] /= <<>>
              /\ Trim(shown.skills.value[i]) = shown.skills.value[i]
        /\ zodConsole = { shown }

----------------------------------------------------------------------------
(* The component EventsDemo: the event log.  An entry is kept by its id;    *)
(* its time, event name, target and value play no part in what addEvent     *)
(* keeps.                                                                   *)

\* the argument of prev.slice(-50)
KeptEntries == 50

\* s.slice(-n)
SliceLast(s, n) == IF Len(s) <= n THEN s ELSE SubSeq(s, Len(s) - n + 1, Len(s))

\* addEvent: setEventLog((prev) => [...prev.slice(-50), {id: ++idRef.current, ...}])
AddEvent ==
    /\ idRef < MaxEvents
    /\ idRef' = idRef + 1
    /\ eventLog' = Append(SliceLast(eventLog, KeptEntries), [id |-> idRef + 1])
    /\ UNCHANGED exceptLog

\* the button of the log: setEventLog([])
ClearLog ==
    /\ eventLog' = <<>>
    /\ UNCHANGED <<idRef, exceptLog>>

InitLog == ValidatorIdle /\ FormInit /\ PagesInit

NextLog == AddEvent \/ ClearLog

SpecLog == InitLog /\ [][NextLog]_vars

(* C20.  The event log keeps only the last 50 events: it has at most 50     *)
(* entries, and they are the most recent events in the order they occurred. *)
C20_AtMostFiftyEntries ==
    /\ Len(eventLog) <= KeptEntries
    /\ \A i \in 1..Len(eventLog) : eventLog[i].id = idRef - Len(eventLog) + i

----------------------------------------------------------------------------
(* C21.  handleChange of a touched field and handleBlur write the error     *)
(* entry of the event's own field only: it becomes the field's entry in     *)
(* the report of the data the handler sees (undefined when the report has   *)
(* none) and every other entry stays as it was; handleBlur also adds        *)
(* exactly that field to touched and leaves formData as it is.              *)

\* e2 is e1 with the entry of field f set to entry, nothing else written
OnlyEntryWritten(e1, e2, f, entry) ==
    /\ DOMAIN e2 = DOMAIN e1 \cup {f}
    /\ e2[f] = entry
    /\ \A g \in DOMAIN e1 \ {f} : e2[g] = e1[g]

C21_OwnEntryOnly ==
    [][ \A f \in FieldSet :
          /\ (f \in touched /\ lastEvent' = "change" /\ HandleChange(f, formData'[f])) =>
                /\ OnlyEntryWritten(errors, errors', f,
                                    EntryOf(validate(formData', registrationSchema), f))
                /\ touched' = touched
          /\ (lastEvent' = "blur" /\ HandleBlur(f)) =>
                /\ OnlyEntryWritten(errors, errors', f,
                                    EntryOf(validate(formData, registrationSchema), f))
                /\ touched' = touched \cup {f}
                /\ formData' = formData ]_vars

\* the touched password was edited last: its entry is the current one, the
\* entry of the touched confirmPassword is the one written before the edit
C21_Witness ==
    /\ lastEvent = "change"
    /\ {"password", "confirmPassword"} \subseteq touched
    /\ ErrorOf(errors, "password") = EntryOf(CurrentReport, "password")
    /\ ErrorOf(errors, "confirmPassword") = { "Paroli ne sovpadayut" }
    /\ formData["confirmPassword"] = formData["password"]

(* C24.  The reset of the Vanilla form is offered in the success state      *)
(* only and restores the initial state: every formData field is '', errors  *)
(* is empty, touched is empty and submitStatus is "idle", so no field       *)
(* shows a message and no text of the previous submission is left.          *)
C24_ResetRestoresInitial ==
    [][ lastEvent' = "reset" =>
          /\ submitStatus = "success"
          /\ formData' = [f \in FieldSet |-> <<>>]
          /\ errors' = EmptyObject
          /\ touched' = {}
          /\ submitStatus' = "idle"
          /\ \A f \in FieldSet : ShowError(f)' = {} ]_vars

\* the form right after a reset
C24_Witness ==
    /\ lastEvent = "reset"
    /\ submitStatus = "idle"
    /\ touched = {}
    /\ \A f \in FieldSet : formData[f] = <<>>

----------------------------------------------------------------------------
(* The chat of UseOptimisticDemo.  handleSendMessage is a form action: up   *)
(* to its await it runs as one step, and it resumes when sendMessage        *)
(* settles.  The form stays usable meanwhile, so several calls can be in    *)
(* flight; every call waits the same 1200 ms, so they settle oldest first.  *)
(* React keeps the optimistic updates until no action is pending.           *)

\* the texts typed into the message input
ChatTexts == { <<>>, <<" ">>, <<"a">>, <<"b">> }

\* Faulty variant: only the empty text is skipped
Skipped_emptyOnly(text) == text = <<>>
\* if (!text.trim()) return
Skipped(text) == Trim(text) = <<>>

\* the list the component renders: useOptimistic(messages, updateFn)
OptimisticMessages ==
    chatMessages \o [i \in 1..Len(chatOptimistic) |-> Message(chatOptimistic[i], "Vy", TRUE)]

\* the optimistic updates left when the calls in flight are pending
OptimisticAfter(pending) == IF pending = <<>> THEN <<>> ELSE chatOptimistic

\* handleSendMessage(formData), up to the await
SendMessage(text) ==
    /\ chatText' = text
    /\ IF Skipped(text)
       THEN /\ chatEvent' = "skipped"
            /\ UNCHANGED <<chatMessages, chatError, chatPending, chatOptimistic, chatSent>>
       ELSE /\ chatSent < MaxSends
            /\ chatError' = {}
            /\ chatOptimistic' = Append(chatOptimistic, text)
            /\ chatPending' = Append(chatPending, text)
            /\ chatSent' = chatSent + 1
            /\ chatEvent' = "sent"
            /\ UNCHANGED chatMessages
    /\ UNCHANGED exceptChat

\* sendMessage resolves: setMessages((prev) => [...prev, serverMessage])
ServerConfirms ==
    /\ chatPending /= <<>>
    /\ chatMessages' = Append(chatMessages, Message(Head(chatPending), "Vy", FALSE))
    /\ chatPending' = Tail(chatPending)
    /\ chatOptimistic' = OptimisticAfter(Tail(chatPending))
    /\ chatEvent' = "confirmed"
    /\ UNCHANGED <<chatError, chatSent, chatText, exceptChat>>

\* sendMessage throws (Math.random() < 0.15): setError(err.message)
ServerRejects ==
    /\ chatPending /= <<>>
    /\ chatError' = { "Ne udalos otpravit soobshchenie" }
    /\ chatPending' = Tail(chatPending)
    /\ chatOptimistic' = OptimisticAfter(Tail(chatPending))
    /\ chatEvent' = "rejected"
    /\ UNCHANGED <<chatMessages, chatSent, chatText, exceptChat>>

InitChat == ValidatorIdle /\ FormInit /\ PagesInit

NextChat ==
    \/ \E text \in ChatTexts : SendMessage(text)
    \/ ServerConfirms
    \/ ServerRejects

SpecChat == InitChat /\ [][NextChat]_vars

----------------------------------------------------------------------------
(* The team form of ReactHookFormDemo: useForm with teamSchema and          *)
(* useFieldArray on members.  An input is kept by whether it holds its      *)
(* default or a text that passes the schema; formState.errors plays no      *)
(* part in which buttons are offered and is left out.                       *)

\* the 8 of disabled={membersCount >= 8} and of members .max(8)
TeamLimit == 8

\* watch('members')?.length || 0
MembersCount == Len(teamMembers)

\* Faulty variant: the add button is never disabled
AppendOffered_always == TRUE
\* disabled={membersCount >= 8}
AppendOffered == ~(MembersCount >= TeamLimit)

\* {fields.length > 1 && <button ... remove(index)>}
RemoveOffered == Len(teamMembers) > 1

\* formState.isDirty: some value differs from defaultValues
TeamDirty == teamNameFilled \/ teamMembers /= TeamDefaultMembers

\* remove(index)
RemoveAt(s, i) == SubSeq(s, 1, i - 1) \o SubSeq(s, i + 1, Len(s))

\* teamSchema on the form values
TeamValid ==
    /\ teamNameFilled
    /\ Len(teamMembers) >= 1
    /\ Len(teamMembers) <= TeamLimit
    /\ \A i \in 1..Len(teamMembers) : teamMembers[i]

\* append({name: '', email: '', role: 'developer', level: 'middle'})
TeamAppend ==
    /\ teamSubmitResult = {}
    /\ AppendOffered
    /\ teamMembers' = Append(teamMembers, FALSE)
    /\ teamEvent' = "append"
    /\ UNCHANGED <<teamNameFilled, teamPending, teamSubmitResult, exceptTeam>>

\* remove(index), index counted from 1 here
TeamRemove(index) ==
    /\ teamSubmitResult = {}
    /\ RemoveOffered
    /\ teamMembers' = RemoveAt(teamMembers, index)
    /\ teamEvent' = "remove"
    /\ UNCHANGED <<teamNameFilled, teamPending, teamSubmitResult, exceptTeam>>

\* the inputs of member index are filled in, or emptied
TeamEditMember(index) ==
    /\ teamSubmitResult = {}
    /\ teamMembers' = [teamMembers EXCEPT ![index] = ~teamMembers[index]]
    /\ teamEvent' = "edit"
    /\ UNCHANGED <<teamNameFilled, teamPending, teamSubmitResult, exceptTeam>>

\* the teamName input is filled in, or emptied
TeamEditName ==
    /\ teamSubmitResult = {}
    /\ teamNameFilled' = ~teamNameFilled
    /\ teamEvent' = "edit"
    /\ UNCHANGED <<teamMembers, teamPending, teamSubmitResult, exceptTeam>>

\* the reset button of the form: {isDirty && ... onClick={() => reset()}}
TeamReset ==
    /\ teamSubmitResult = {}
    /\ TeamDirty
    /\ teamNameFilled' = FALSE
    /\ teamMembers' = TeamDefaultMembers
    /\ teamEvent' = "reset"
    /\ UNCHANGED <<teamPending, teamSubmitResult, exceptTeam>>

\* handleSubmit(onSubmit): the button, disabled while isSubmitting, is pressed
TeamSubmit ==
    /\ teamSubmitResult = {}
    /\ teamPending = {}
    /\ teamPending' = IF TeamValid THEN { [members |-> teamMembers] } ELSE {}
    /\ teamEvent' = "submit"
    /\ UNCHANGED <<teamNameFilled, teamMembers, teamSubmitResult, exceptTeam>>

\* onSubmit after its timer: setSubmitResult(data)
TeamOnSubmit ==
    /\ teamPending /= {}
    /\ teamSubmitResult' = teamPending
    /\ teamPending' = {}
    /\ teamEvent' = "created"
    /\ UNCHANGED <<teamNameFilled, teamMembers, exceptTeam>>

\* the button of the success view: setSubmitResult(null); reset()
TeamCreateNew ==
    /\ teamSubmitResult /= {}
    /\ teamSubmitResult' = {}
    /\ teamNameFilled' = FALSE
    /\ teamMembers' = TeamDefaultMembers
    /\ teamEvent' = "new"
    /\ UNCHANGED <<teamPending, exceptTeam>>

InitTeam == ValidatorIdle /\ FormInit /\ PagesInit

NextTeam ==
    \/ TeamAppend
    \/ \E index \in 1..Len(teamMembers) : TeamRemove(index)
    \/ \E index \in 1..Len(teamMembers) : TeamEditMember(index)
    \/ TeamEditName
    \/ TeamReset
    \/ TeamSubmit
    \/ TeamOnSubmit
    \/ TeamCreateNew

SpecTeam == InitTeam /\ [][NextTeam]_vars

(* C23.  The number of members of the team form always stays between 1     *)
(* and 8: with 8 members the add button is disabled, with one member the    *)
(* remove button is not offered, and a reset leaves exactly one member.     *)
C23_MembersBetweenOneAndEight ==
    /\ Len(teamMembers) >= 1
    /\ Len(teamMembers) <= 8
    /\ Len(teamMembers) = 8 => ~AppendOffered
    /\ Len(teamMembers) = 1 => ~RemoveOffered
    /\ teamEvent \in {"reset", "new"} => Len(teamMembers) = 1
    /\ \A shown \in teamSubmitResult :
          Len(shown.members) >= 1 /\ Len(shown.members) <= 8

\* eight members, reached by the add button
C23_Witness ==
    /\ Len(teamMembers) = 8
    /\ teamEvent = "append"
    /\ ~AppendOffered

----------------------------------------------------------------------------
(* The feedback form of UseActionStateDemo: useActionState(submitFeedback,  *)
(* {status: 'idle', message: ''}).  feedbackPending holds the FormData of   *)
(* the call that waits in delay(1500); feedbackInput and feedbackDelayed    *)
(* record the FormData of the call whose return value is in feedbackState   *)
(* and whether that call went through the delay.                            *)

FeedbackNames == { <<>>, <<" ">>, <<"A">>, <<"B">> }
FeedbackEmails == { <<>>, <<"a">>, <<"@">>, <<"a", "@", "b">> }
FeedbackTexts == { <<>>, <<"x">>, <<"y">> }

\* !value of a string
Falsy(value) == value = <<>>

\* email.includes('@')
IncludesAt(email) == \E i \in 1..Len(email) : email[i] = "@"

FeedbackError(message) == [status |-> "error", message |-> <<message>>, data |-> {}]

\* Faulty variant: the email is examined before the empty fields
Rejection_emailFirst(name, email, feedback) ==
    IF ~IncludesAt(email)
    THEN { FeedbackError("Vvedite korrektnyi email") }
    ELSE IF Falsy(name) \/ Falsy(email) \/ Falsy(feedback)
    THEN { FeedbackError("Vse polya obyazatelny dlya zapolneniya") }
    ELSE {}
\* the returns of submitFeedback that come before await delay(1500)
Rejection(name, email, feedback) ==
    IF Falsy(name) \/ Falsy(email) \/ Falsy(feedback)
    THEN { FeedbackError("Vse polya obyazatelny dlya zapolneniya") }
    ELSE IF ~IncludesAt(email)
    THEN { FeedbackError("Vvedite korrektnyi email") }
    ELSE {}

\* the returns of submitFeedback that come after await delay(1500)
Completion(sent, failed) ==
    IF failed
    THEN FeedbackError("Oshibka servera. Poprobuite eshche raz.")
    ELSE [status |-> "success",
          message |-> <<"Spasibo, ">> \o sent.name \o <<"! Vash otzyv poluchen.">>,
          data |-> { sent }]

\* the form is submitted; the button is disabled while isFeedbackPending
FeedbackSubmit(name, email, feedback) ==
    LET sent == [name |-> name, email |-> email, feedback |-> feedback]
        early == Rejection(name, email, feedback)
    IN  /\ feedbackPending = {}
        /\ IF early /= {}
           THEN /\ feedbackState' = CHOOSE s \in early : TRUE
                /\ feedbackInput' = { sent }
                /\ feedbackDelayed' = FALSE
                /\ UNCHANGED feedbackPending
           ELSE /\ feedbackPending' = { sent }
                /\ UNCHANGED <<feedbackState, feedbackInput, feedbackDelayed>>
        /\ UNCHANGED exceptFeedback

\* delay(1500) is over and Math.random() < 0.1
FeedbackServerFails ==
    /\ feedbackPending /= {}
    /\ feedbackState' = Completion(CHOOSE s \in feedbackPending : TRUE, TRUE)
    /\ feedbackInput' = feedbackPending
    /\ feedbackDelayed' = TRUE
    /\ feedbackPending' = {}
    /\ UNCHANGED exceptFeedback

\* delay(1500) is over and Math.random() >= 0.1
FeedbackServerAccepts ==
    /\ feedbackPending /= {}
    /\ feedbackState' = Completion(CHOOSE s \in feedbackPending : TRUE, FALSE)
    /\ feedbackInput' = feedbackPending
    /\ feedbackDelayed' = TRUE
    /\ feedbackPending' = {}
    /\ UNCHANGED exceptFeedback

InitFeedback == ValidatorIdle /\ FormInit /\ PagesInit

NextFeedback ==
    \/ \E name \in FeedbackNames, email \in FeedbackEmails, feedback \in FeedbackTexts :
          FeedbackSubmit(name, email, feedback)
    \/ FeedbackServerFails
    \/ FeedbackServerAccepts

SpecFeedback == InitFeedback /\ [][NextFeedback]_vars

\* some field of the submission is the empty string
AnyEmpty(sent) == sent.name = <<>> \/ sent.email = <<>> \/ sent.feedback = <<>>

\* the email of the submission has no '@'
LacksAt(sent) == \A i \in 1..Len(sent.email) : sent.email[i] /= "@"

(* C25.  A submission with an empty name, email or feedback returns status  *)
(* 'error' with the 'all fields are required' message, and otherwise one    *)
(* whose email lacks '@' returns status 'error' with the 'enter a correct   *)
(* email' message; both come without data and without the server delay, so  *)
(* never with status 'success'; and the action state holds data only when   *)
(* its status is 'success'.                                                 *)
C25_RejectedBeforeDelay ==
    /\ \A sent \in feedbackInput :
          /\ AnyEmpty(sent) =>
                /\ feedbackState = [status |-> "error",
                                    message |-> << "Vse polya obyazatelny dlya zapolneniya" >>,
                                    data |-> {}]
                /\ ~feedbackDelayed
          /\ (~AnyEmpty(sent) /\ LacksAt(sent)) =>
                /\ feedbackState = [status |-> "error",
                                    message |-> << "Vvedite korrektnyi email" >>,
                                    data |-> {}]
                /\ ~feedbackDelayed
    /\ \A sent \in feedbackPending : ~AnyEmpty(sent) /\ ~LacksAt(sent)
    /\ feedbackState.data /= {} => feedbackState.status = "success"
    /\ feedbackState.status = "success" => feedbackState.data = feedbackInput

\* a submission with an empty name and an email without '@' has been
\* answered
C25_Witness ==
    /\ \E sent \in feedbackInput : sent.name = <<>> /\ sent.email = <<"a">>
    /\ feedbackState.status = "error"
    /\ ~feedbackDelayed

====
